---- MODULE Spec2Model ----
(***************************************************************************)
(* The particle attractor simulation of script_attractor_particles_vanilla *)
(* (init, the animate loop, updateParticles, the lil-gui handlers and      *)
(* resetParticles) as a state machine.                                     *)
(*                                                                         *)
(* Numbers.  A JavaScript number is modelled as a fixed-point value, an    *)
(* integer counting thousandths (SCALE), or one of the three IEEE-754      *)
(* specials NaN, Infinity and -Infinity.  Products and quotients round     *)
(* toward zero.  Masses and the gravity constant are too large / too small *)
(* for thousandths and keep their own units (see GravityNumerator), and    *)
(* squared speeds are kept exactly, in millionths (see FSquare).  The      *)
(* rounding of a store into a Float32Array is not modelled.                *)
(***************************************************************************)
EXTENDS Integers, Sequences, FiniteSets, TLC

SCALE == 10^3

NaN == 2^30
Infinity == 2^30 + 1
NegInfinity == 0 - Infinity

IsNaN(a) == a = NaN
IsInf(a) == a = Infinity \/ a = NegInfinity
IsFinite(a) == ~IsNaN(a) /\ ~IsInf(a)

Abs(a) == IF a < 0 THEN 0 - a ELSE a
Sign(a) == IF a < 0 THEN 0 - 1 ELSE IF a > 0 THEN 1 ELSE 0

\* Integer quotient rounded toward zero (b > 0), as a float operation whose
\* result is cut to the model's resolution.
TruncDiv(a, b) == IF a < 0 THEN 0 - ((0 - a) \div b) ELSE a \div b

SignedInf(s) == IF s < 0 THEN NegInfinity ELSE Infinity

\* a + b
FAdd(a, b) ==
  IF IsNaN(a) \/ IsNaN(b) THEN NaN
  ELSE IF IsInf(a) /\ IsInf(b) THEN (IF a = b THEN a ELSE NaN)
  ELSE IF IsInf(a) THEN a
  ELSE IF IsInf(b) THEN b
  ELSE a + b

FNeg(a) == IF IsNaN(a) THEN NaN ELSE IF IsInf(a) THEN SignedInf(0 - Sign(a)) ELSE 0 - a

\* a - b
FSub(a, b) == FAdd(a, FNeg(b))

\* a * b
FMul(a, b) ==
  IF IsNaN(a) \/ IsNaN(b) THEN NaN
  ELSE IF IsInf(a) \/ IsInf(b)
       THEN (IF a = 0 \/ b = 0 THEN NaN ELSE SignedInf(Sign(a) * Sign(b)))
  ELSE TruncDiv(a * b, SCALE)

\* a / b
FDiv(a, b) ==
  IF IsNaN(a) \/ IsNaN(b) THEN NaN
  ELSE IF IsInf(a) /\ IsInf(b) THEN NaN
  ELSE IF IsInf(a) THEN SignedInf(Sign(a) * (IF b < 0 THEN 0 - 1 ELSE 1))
  ELSE IF IsInf(b) THEN 0
  ELSE IF b = 0 THEN (IF a = 0 THEN NaN ELSE SignedInf(Sign(a)))
  ELSE Sign(a) * Sign(b) * TruncDiv(Abs(a) * SCALE, Abs(b))

\* a % b: the remainder takes the sign of the dividend a
FMod(a, b) ==
  IF IsNaN(a) \/ IsNaN(b) \/ IsInf(a) \/ b = 0 THEN NaN
  ELSE IF IsInf(b) THEN a
  ELSE a - Abs(b) * TruncDiv(a, Abs(b))

\* a > b (false whenever an operand is NaN)
FGt(a, b) ==
  IF IsNaN(a) \/ IsNaN(b) THEN FALSE
  ELSE IF a = b THEN FALSE
  ELSE IF a = Infinity \/ b = NegInfinity THEN TRUE
  ELSE IF a = NegInfinity \/ b = Infinity THEN FALSE
  ELSE a > b

RECURSIVE ISqrtBetween(_, _, _)
ISqrtBetween(n, lo, hi) ==
  IF lo >= hi THEN lo
  ELSE LET mid == (lo + hi + 1) \div 2
       IN  IF mid * mid <= n THEN ISqrtBetween(n, mid, hi)
           ELSE ISqrtBetween(n, lo, mid - 1)

\* Math.sqrt
FSqrt(a) ==
  IF IsNaN(a) \/ a = NegInfinity THEN NaN
  ELSE IF a = Infinity THEN Infinity
  ELSE IF a < 0 THEN NaN
  ELSE ISqrtBetween(a * SCALE, 0, 46340)

\* Math.PI
PI == 3142

\* sine on [0, PI/2] by its Taylor polynomial of degree 7
SinQuarter(x) ==
  LET x2 == FMul(x, x)
      x3 == FMul(x, x2)
      x5 == FMul(x3, x2)
      x7 == FMul(x5, x2)
  IN  x - TruncDiv(x3, 6) + TruncDiv(x5, 120) - TruncDiv(x7, 5040)

SinHalf(x) == IF 2 * x > PI THEN SinQuarter(PI - x) ELSE SinQuarter(x)

\* Math.sin, for an angle in [0, 2 PI + PI/2]
Sin(x) ==
  IF x >= 2 * PI THEN SinHalf(x - 2 * PI)
  ELSE IF x > PI THEN 0 - SinHalf(x - PI)
  ELSE SinHalf(x)

\* Math.cos, for an angle in [0, 2 PI]
Cos(x) == Sin(x + PI \div 2)


(***************************************************************************)
(* Program constants and bounds of the model.                              *)
(***************************************************************************)

\* The ensemble is PARTICLE_COUNT = 1000 particles in the source; the
\* particles never interact, and the model keeps this many of them.
PARTICLE_COUNT == 2
ATTRACTOR_COUNT == 3

\* animate frames and control-panel events (the reset button included)
\* explored in one run
MaxFrames == 3
MaxGuiEvents == 2

ParticleIndices == 1..PARTICLE_COUNT

\* The uniforms object before init() runs.  attractorMass and
\* particleGlobalMass are plain integers, gravityConstant counts 1e-13
\* (6.67e-11 = 667e-13), everything else counts thousandths.
InitialUniforms ==
  [ attractorMass         |-> 10^7,
    particleGlobalMass    |-> 10^4,
    timeScale             |-> 10,
    spinningStrength      |-> 4000,
    maxSpeed              |-> 2000,
    gravityConstant       |-> 667,
    velocityDamping       |-> 700,
    boundHalfExtent       |-> 8000,
    attractorPositions    |-> << >>,
    attractorRotationAxes |-> << >> ]

\* THREE.Vector3.normalize: v / (|v| or 1)
Normalize(v) ==
  LET len == FSqrt(FAdd(FAdd(FMul(v[1], v[1]), FMul(v[2], v[2])), FMul(v[3], v[3])))
      d   == IF len = 0 THEN SCALE ELSE len
  IN  << FDiv(v[1], d), FDiv(v[2], d), FDiv(v[3], d) >>

attractorPositions ==
  << << 0 - 500, 500, 0 >>,
     << 500, 0, 0 - 500 >>,
     << 0, 0 - 500, 500 >> >>

attractorRotationAxes ==
  << << 0, 1000, 0 >>,
     << 0, 1000, 0 >>,
     Normalize(<< 1000, 0, 0 - 500 >>) >>

(***************************************************************************)
(* Math.random(): the draws of one particle (x, y, z, phi, theta, mass),   *)
(* each in [0, 1).  The first puts the particle exactly on the second      *)
(* attractor, with the least mass; the second puts it at an edge of the    *)
(* slab (least x and z, greatest y), with the greatest mass.               *)
(***************************************************************************)
RandomDraws ==
  { << 600, 500, 400, 250, 500, 0 >>,
    << 0, 999, 0, 875, 750, 999 >> }

\* values a slider of the control panel can deliver (inside its range, on
\* its step)
AttractorMassExponents == {6}
ParticleGlobalMassExponents == {5}
MaxSpeedValues == {0}
VelocityDampingValues == {0}
SpinningStrengthValues == {0}
BoundHalfExtentValues == {0, 1000}

(***************************************************************************)
(* createParticles / resetParticles: one particle from its six draws.      *)
(***************************************************************************)
\* (mutant) the slab of createParticles one unit wider
SamplePositionWide(u) ==
  << FMul(u[1] - 500, 6000), FMul(u[2] - 500, 200), FMul(u[3] - 500, 6000) >>

SamplePosition(u) ==
  << FMul(u[1] - 500, 5000), FMul(u[2] - 500, 200), FMul(u[3] - 500, 5000) >>

SampleVelocity(u) ==
  LET phi   == FMul(FMul(u[4], PI), 2000)
      theta == FMul(u[5], PI)
      r     == 50
  IN  << FMul(FMul(r, Sin(phi)), Sin(theta)),
         FMul(r, Cos(phi)),
         FMul(FMul(r, Sin(phi)), Cos(theta)) >>

\* (Math.random() * 0.75 + 0.25) * uniforms.particleGlobalMass.value
SampleMass(u, globalMass) == TruncDiv((FMul(u[6], 750) + 250) * globalMass, SCALE)

(***************************************************************************)
(* updateParticles: one particle.                                          *)
(***************************************************************************)

\* uniforms.attractorMass.value * particleMasses[i] * uniforms.gravityConstant.value,
\* in thousandths: am * pm * g * 1e-13 * 1e3, the powers of ten divided out
\* between the factors to stay inside 32-bit integers.
GravityNumerator(U, mass) ==
  TruncDiv(TruncDiv(TruncDiv(U.attractorMass, 10^5) * mass, 10^2) * U.gravityConstant, 10^3)

DistSq(a, p) ==
  LET dx == FSub(a[1], p[1])
      dy == FSub(a[2], p[2])
      dz == FSub(a[3], p[3])
  IN  FAdd(FAdd(FMul(dx, dx), FMul(dy, dy)), FMul(dz, dz))

\* the body of the loop over the attractors: f is (fx, fy, fz) so far
AttractorForce(f, j, p, mass, U) ==
  LET a  == U.attractorPositions[j]
      ax == U.attractorRotationAxes[j]
      dx == FSub(a[1], p[1])
      dy == FSub(a[2], p[2])
      dz == FSub(a[3], p[3])
      distSq == DistSq(a, p)
      dist   == FSqrt(distSq)
      gravityStrength  == FDiv(GravityNumerator(U, mass), distSq)
      forceMag         == FDiv(gravityStrength, dist)
      spinningStrength == FMul(gravityStrength, U.spinningStrength)
      spinX == FSub(FMul(ax[2], dz), FMul(ax[3], dy))
      spinY == FSub(FMul(ax[3], dx), FMul(ax[1], dz))
      spinZ == FSub(FMul(ax[1], dy), FMul(ax[2], dx))
  IN  << FAdd(FAdd(f[1], FMul(forceMag, dx)), FMul(spinningStrength, spinX)),
         FAdd(FAdd(f[2], FMul(forceMag, dy)), FMul(spinningStrength, spinY)),
         FAdd(FAdd(f[3], FMul(forceMag, dz)), FMul(spinningStrength, spinZ)) >>

RECURSIVE Force(_, _, _, _, _)
Force(f, j, p, mass, U) ==
  IF j > ATTRACTOR_COUNT THEN f
  ELSE Force(AttractorForce(f, j, p, mass, U), j + 1, p, mass, U)

\* velocities[i3..] += f * uniforms.timeScale.value
Accelerate(v, f, U) ==
  << FAdd(v[1], FMul(f[1], U.timeScale)),
     FAdd(v[2], FMul(f[2], U.timeScale)),
     FAdd(v[3], FMul(f[3], U.timeScale)) >>

\* a * a kept exactly, in millionths: a speed of one thousandth must not
\* square to zero, as it does not in the source's doubles
FSquare(a) ==
  IF IsNaN(a) THEN NaN ELSE IF IsInf(a) THEN Infinity ELSE a * a

\* Math.sqrt of a value in millionths, in thousandths
FSqrtOfSquare(a) ==
  IF IsNaN(a) THEN NaN ELSE IF IsInf(a) THEN Infinity ELSE ISqrtBetween(a, 0, 46340)

\* speedSq, in millionths
SpeedSq(v) == FAdd(FAdd(FSquare(v[1]), FSquare(v[2])), FSquare(v[3]))

\* Apply speed limit
LimitSpeed(v, U) ==
  IF FGt(SpeedSq(v), FSquare(U.maxSpeed))
  THEN LET speedFactor == FDiv(U.maxSpeed, FSqrtOfSquare(SpeedSq(v)))
       IN  << FMul(v[1], speedFactor), FMul(v[2], speedFactor), FMul(v[3], speedFactor) >>
  ELSE v

\* Apply damping
Damp(v, U) ==
  LET damping == FSub(SCALE, U.velocityDamping)
  IN  << FMul(v[1], damping), FMul(v[2], damping), FMul(v[3], damping) >>

\* Update position
Translate(p, v, U) ==
  << FAdd(p[1], FMul(v[1], U.timeScale)),
     FAdd(p[2], FMul(v[2], U.timeScale)),
     FAdd(p[3], FMul(v[3], U.timeScale)) >>

\* (mutant) the box loop stops the particle at the face it leaves through
WrapCoordClamped(x, halfExtent) ==
  IF FGt(x, halfExtent) THEN halfExtent
  ELSE IF FGt(FNeg(halfExtent), x) THEN FNeg(halfExtent)
  ELSE x

\* Box loop, one coordinate: (x + halfExtent) % (2 * halfExtent) - halfExtent
WrapCoord(x, halfExtent) ==
  FSub(FMod(FAdd(x, halfExtent), 2 * halfExtent), halfExtent)

BoxLoop(p, U) ==
  << WrapCoord(p[1], U.boundHalfExtent),
     WrapCoord(p[2], U.boundHalfExtent),
     WrapCoord(p[3], U.boundHalfExtent) >>

\* (mutant) the damping applied before the speed limit
UpdateParticleDampFirst(p, v, mass, U) ==
  LET f  == Force(<< 0, 0, 0 >>, 1, p, mass, U)
      v1 == Accelerate(v, f, U)
      v2 == Damp(v1, U)
      v3 == LimitSpeed(v2, U)
      p1 == Translate(p, v3, U)
  IN  [ position |-> BoxLoop(p1, U), velocity |-> v3 ]

\* one iteration of the loop over the particles: the new (position, velocity)
UpdateParticle(p, v, mass, U) ==
  LET f  == Force(<< 0, 0, 0 >>, 1, p, mass, U)
      v1 == Accelerate(v, f, U)
      v2 == LimitSpeed(v1, U)
      v3 == Damp(v2, U)
      p1 == Translate(p, v3, U)
  IN  [ position |-> BoxLoop(p1, U), velocity |-> v3 ]


(***************************************************************************)
(* State.                                                                  *)
(*   pc            where the script is: "start" before init(), "animate"   *)
(*                 at the call of animate(), "update" before               *)
(*                 updateParticles(), "render" before renderer.render(),   *)
(*                 "idle" between two animation frames                     *)
(*   uniforms      the uniforms object                                     *)
(*   positions, velocities, particleMasses                                 *)
(*                 the three attribute arrays of particleGeometry, one     *)
(*                 entry per particle (<< >> before createParticles)       *)
(*   needsUpdate   the needsUpdate flags of the three attributes           *)
(*   frame, guiEvents                                                      *)
(*                 frames rendered and control-panel events so far (they   *)
(*                 bound the run)                                          *)
(*   resets        history: resetParticles calls so far                    *)
(*   stepsInFrame, updated                                                 *)
(*                 history: updateParticles calls since animate() was      *)
(*                 entered, and the particles they have written            *)
(*   prev          history: positions and velocities as the last           *)
(*                 updateParticles found them                              *)
(*   drawn         history: what renderer.render last found                *)
(*   twin          a second run of updateParticles on the same particles   *)
(*                 with another attractor configuration (the scenario      *)
(*                 specification only)                                     *)
(***************************************************************************)
VARIABLES pc, uniforms, positions, velocities, particleMasses, needsUpdate,
          frame, guiEvents, resets, stepsInFrame, updated, prev, drawn, twin

vars == << pc, uniforms, positions, velocities, particleMasses, needsUpdate,
           frame, guiEvents, resets, stepsInFrame, updated, prev, drawn, twin >>

NoFlags == [ position |-> FALSE, velocity |-> FALSE, particleMass |-> FALSE ]
NoPrev == [ positions |-> << >>, velocities |-> << >> ]
NoDraw == [ steps |-> 0, updated |-> {}, position |-> FALSE, velocity |-> FALSE ]
NoTwin == [ attractorPositions |-> << >>, attractorRotationAxes |-> << >>,
            positions |-> << >>, velocities |-> << >> ]

Init ==
  /\ pc = "start"
  /\ uniforms = InitialUniforms
  /\ positions = << >>
  /\ velocities = << >>
  /\ particleMasses = << >>
  /\ needsUpdate = NoFlags
  /\ frame = 0
  /\ guiEvents = 0
  /\ resets = 0
  /\ stepsInFrame = 0
  /\ updated = {}
  /\ prev = NoPrev
  /\ drawn = NoDraw
  /\ twin = NoTwin

\* setupAttractors: the uniforms take the two module-level arrays
SetupAttractors(U) ==
  [ U EXCEPT !.attractorPositions = attractorPositions,
             !.attractorRotationAxes = attractorRotationAxes ]

\* the loop of createParticles and of resetParticles, draws[i] being the six
\* Math.random() results of particle i
SampledPositions(draws) == [ i \in ParticleIndices |-> SamplePosition(draws[i]) ]
SampledVelocities(draws) == [ i \in ParticleIndices |-> SampleVelocity(draws[i]) ]
SampledMasses(draws, U) ==
  [ i \in ParticleIndices |-> SampleMass(draws[i], U.particleGlobalMass) ]

\* init(): setupAttractors(), createParticles(), setupGUI(); the script then
\* calls animate()
InitScene ==
  /\ pc = "start"
  /\ \E draws \in [ ParticleIndices -> RandomDraws ] :
       /\ uniforms' = SetupAttractors(uniforms)
       /\ positions' = SampledPositions(draws)
       /\ velocities' = SampledVelocities(draws)
       /\ particleMasses' = SampledMasses(draws, uniforms)
  /\ needsUpdate' = [ position |-> TRUE, velocity |-> TRUE, particleMass |-> TRUE ]
  /\ pc' = "animate"
  /\ UNCHANGED << frame, guiEvents, resets, stepsInFrame, updated, prev, drawn, twin >>

\* animate() up to its call of updateParticles: requestAnimationFrame(animate),
\* controls.update()
AnimateEnter ==
  /\ pc \in { "animate", "idle" }
  /\ frame < MaxFrames
  /\ pc' = "update"
  /\ stepsInFrame' = 0
  /\ updated' = {}
  /\ UNCHANGED << uniforms, positions, velocities, particleMasses, needsUpdate,
                  frame, guiEvents, resets, prev, drawn, twin >>

\* the particles the loop of updateParticles visits
UpdateRange == ParticleIndices

\* updateParticles on whole arrays
UpdatedParticles(P, V, M, U) ==
  [ i \in DOMAIN P |->
      IF i \in UpdateRange THEN UpdateParticle(P[i], V[i], M[i], U)
      ELSE [ position |-> P[i], velocity |-> V[i] ] ]

\* the two flags updateParticles sets when its loop is over
FlagsAfterUpdate(flags) == [ flags EXCEPT !.position = TRUE, !.velocity = TRUE ]

UpdateParticlesStep ==
  /\ pc = "update"
  /\ LET new == UpdatedParticles(positions, velocities, particleMasses, uniforms)
     IN  /\ positions' = [ i \in DOMAIN positions |-> new[i].position ]
         /\ velocities' = [ i \in DOMAIN velocities |-> new[i].velocity ]
  /\ needsUpdate' = FlagsAfterUpdate(needsUpdate)
  /\ prev' = [ positions |-> positions, velocities |-> velocities ]
  /\ stepsInFrame' = stepsInFrame + 1
  /\ updated' = updated \cup UpdateRange
  /\ pc' = "render"
  /\ UNCHANGED << uniforms, particleMasses, frame, guiEvents, resets, drawn, twin >>

\* (mutant) renderer.render called without waiting for updateParticles
RenderReadyEarly == pc \in { "update", "render" }

\* where animate() calls renderer.render: after updateParticles has returned
RenderReady == pc = "render"

\* renderer.render(scene, camera): the renderer reads the attributes, uploads
\* the flagged ones and clears their flags
Render ==
  /\ RenderReady
  /\ drawn' = [ steps |-> stepsInFrame, updated |-> updated,
                position |-> needsUpdate.position, velocity |-> needsUpdate.velocity ]
  /\ needsUpdate' = NoFlags
  /\ frame' = frame + 1
  /\ pc' = "idle"
  /\ UNCHANGED << uniforms, positions, velocities, particleMasses, guiEvents,
                  resets, stepsInFrame, updated, prev, twin >>

\* the panel acts between two frames (the model stops taking its events
\* when no frame is left to show their effect)
PanelEvent ==
  /\ pc = "idle"
  /\ frame < MaxFrames
  /\ guiEvents < MaxGuiEvents

\* a control of the panel writes one field of uniforms
GuiSet(U) ==
  /\ PanelEvent
  /\ uniforms' = U
  /\ guiEvents' = guiEvents + 1
  /\ UNCHANGED << pc, positions, velocities, particleMasses, needsUpdate, frame,
                  resets, stepsInFrame, updated, prev, drawn, twin >>

Pow10(e) == 10^e

SetAttractorMass ==
  \E e \in AttractorMassExponents :
    GuiSet([ uniforms EXCEPT !.attractorMass = Pow10(e) ])

SetParticleGlobalMass ==
  \E e \in ParticleGlobalMassExponents :
    GuiSet([ uniforms EXCEPT !.particleGlobalMass = Pow10(e) ])

SetMaxSpeed ==
  \E x \in MaxSpeedValues : GuiSet([ uniforms EXCEPT !.maxSpeed = x ])

SetVelocityDamping ==
  \E x \in VelocityDampingValues : GuiSet([ uniforms EXCEPT !.velocityDamping = x ])

SetSpinningStrength ==
  \E x \in SpinningStrengthValues : GuiSet([ uniforms EXCEPT !.spinningStrength = x ])

SetBoundHalfExtent ==
  \E x \in BoundHalfExtentValues : GuiSet([ uniforms EXCEPT !.boundHalfExtent = x ])

\* the uniforms after resetParticles
ResetUniforms(U) == U

\* resetParticles, the reset button of the panel
ResetParticles ==
  /\ PanelEvent
  /\ \E draws \in [ ParticleIndices -> RandomDraws ] :
       /\ positions' = SampledPositions(draws)
       /\ velocities' = SampledVelocities(draws)
       /\ particleMasses' = SampledMasses(draws, uniforms)
  /\ uniforms' = ResetUniforms(uniforms)
  /\ needsUpdate' = [ position |-> TRUE, velocity |-> TRUE, particleMass |-> TRUE ]
  /\ resets' = resets + 1
  /\ guiEvents' = guiEvents + 1
  /\ UNCHANGED << pc, frame, stepsInFrame, updated, prev, drawn, twin >>

Next ==
  \/ InitScene
  \/ AnimateEnter
  \/ UpdateParticlesStep
  \/ Render
  \/ SetAttractorMass
  \/ SetParticleGlobalMass
  \/ SetMaxSpeed
  \/ SetVelocityDamping
  \/ SetSpinningStrength
  \/ SetBoundHalfExtent
  \/ ResetParticles

Spec == Init /\ [][Next]_vars


(***************************************************************************)
(* The scenario specification: updateParticles as a function of the        *)
(* particle state it is given.  The particles are placed by hand (at the   *)
(* +x and -x faces of the box with a forced x-velocity, and at a corner of *)
(* the initial slab), gravityConstant is the program's or zero, and the    *)
(* twin runs the same particles under another attractor configuration.     *)
(***************************************************************************)
ScenarioParticles ==
  { [ position |-> << 8000 - 1, 0, 0 >>,  velocity |-> << 10000, 0, 0 >>,  mass |-> 2500 ],
    [ position |-> << 8000 - 1, 99, 2495 >>, velocity |-> << 10000, 35, 0 - 24 >>, mass |-> 9990 ],
    [ position |-> << 1 - 8000, 0, 0 >>,  velocity |-> << 0 - 10000, 0, 0 >>, mass |-> 2500 ],
    [ position |-> << 0 - 2500, 0 - 100, 0 - 2500 >>, velocity |-> << 0, 50, 0 >>, mass |-> 9990 ] }

ScenarioGravityConstants == { 0, InitialUniforms.gravityConstant }

\* attractor configurations of the twin: other rotation axes, other
\* positions, and the second attractor on the corner particle
TwinConfigurations ==
  { [ positions |-> attractorPositions,
      axes |-> << << 1000, 0, 0 >>, << 0, 0, 1000 >>, << 0, 1000, 0 >> >> ],
    [ positions |-> << << 1000, 1000, 1000 >>, << 0 - 3000, 0, 2000 >>, << 0, 500, 0 >> >>,
      axes |-> attractorRotationAxes ],
    [ positions |-> << attractorPositions[1], << 0 - 2500, 0 - 100, 0 - 2500 >>,
                       attractorPositions[3] >>,
      axes |-> attractorRotationAxes ] }

TwinUniforms ==
  [ uniforms EXCEPT !.attractorPositions = twin.attractorPositions,
                    !.attractorRotationAxes = twin.attractorRotationAxes ]

InitScenario ==
  /\ pc = "update"
  /\ \E g \in ScenarioGravityConstants :
       uniforms = [ SetupAttractors(InitialUniforms) EXCEPT !.gravityConstant = g ]
  /\ \E ps \in [ ParticleIndices -> ScenarioParticles ] :
       /\ positions = [ i \in ParticleIndices |-> ps[i].position ]
       /\ velocities = [ i \in ParticleIndices |-> ps[i].velocity ]
       /\ particleMasses = [ i \in ParticleIndices |-> ps[i].mass ]
  /\ \E c \in TwinConfigurations :
       twin = [ attractorPositions |-> c.positions, attractorRotationAxes |-> c.axes,
                positions |-> positions, velocities |-> velocities ]
  /\ needsUpdate = NoFlags
  /\ frame = 0
  /\ guiEvents = 0
  /\ resets = 0
  /\ stepsInFrame = 0
  /\ updated = {}
  /\ prev = NoPrev
  /\ drawn = NoDraw

\* one updateParticles call on the particles, and one on the twin's
ScenarioStep ==
  /\ pc \in { "update", "render" }
  /\ frame < MaxFrames
  /\ LET new == UpdatedParticles(positions, velocities, particleMasses, uniforms)
         two == UpdatedParticles(twin.positions, twin.velocities, particleMasses, TwinUniforms)
     IN  /\ positions' = [ i \in DOMAIN positions |-> new[i].position ]
         /\ velocities' = [ i \in DOMAIN velocities |-> new[i].velocity ]
         /\ twin' = [ twin EXCEPT !.positions = [ i \in DOMAIN positions |-> two[i].position ],
                                  !.velocities = [ i \in DOMAIN velocities |-> two[i].velocity ] ]
  /\ needsUpdate' = FlagsAfterUpdate(needsUpdate)
  /\ prev' = [ positions |-> positions, velocities |-> velocities ]
  /\ stepsInFrame' = stepsInFrame + 1
  /\ updated' = updated \cup UpdateRange
  /\ frame' = frame + 1
  /\ pc' = "render"
  /\ UNCHANGED << uniforms, particleMasses, guiEvents, resets, drawn >>

NextScenario == ScenarioStep

SpecScenario == InitScenario /\ [][NextScenario]_vars


(***************************************************************************)
(* Properties.                                                             *)
(***************************************************************************)

\* updateParticles has just returned (uniforms are those it ran with: the
\* panel only acts between frames)
JustStepped == pc = "render" /\ stepsInFrame > 0

FiniteVec(v) == IsFinite(v[1]) /\ IsFinite(v[2]) /\ IsFinite(v[3])

\* particle i was exactly on an attractor when the last step began
WasOnAttractor(i) ==
  \E j \in 1..ATTRACTOR_COUNT : prev.positions[i] = uniforms.attractorPositions[j]

\* |v| <= limit, on the exact integers
SpeedAtMost(v, limit) ==
  /\ FiniteVec(v)
  /\ v[1] * v[1] + v[2] * v[2] + v[3] * v[3] <= limit * limit

\* C1: after every updateParticles step every position coordinate lies in
\* [-boundHalfExtent, +boundHalfExtent) (stated here for the coordinates
\* that are numbers: a NaN coordinate is the matter of C3 and C7).
C1_BoundaryContainment ==
  JustStepped =>
    \A i \in ParticleIndices : \A k \in 1..3 :
      IsFinite(positions[i][k]) =>
        /\ positions[i][k] >= 0 - uniforms.boundHalfExtent
        /\ positions[i][k] < uniforms.boundHalfExtent

\* C2: after every updateParticles step every particle's speed is at most
\* maxSpeed.
C2_SpeedBound ==
  JustStepped =>
    \A i \in ParticleIndices : SpeedAtMost(velocities[i], uniforms.maxSpeed)

\* C3: a particle that is exactly on an attractor when a step begins has, after
\* the step, a velocity and a position free of NaN (the attractor contributes
\* nothing); boundHalfExtent > 0 keeps the box loop out of the question.
C3_CoincidentAttractorIgnored ==
  (JustStepped /\ uniforms.boundHalfExtent > 0) =>
    \A i \in ParticleIndices :
      (WasOnAttractor(i) /\ FiniteVec(prev.velocities[i])) =>
        FiniteVec(velocities[i]) /\ FiniteVec(positions[i])

\* C4: in every reachable state every particle's mass is positive and within
\* [0.25, 1.0] x the current particleGlobalMass.
C4_MassWithinGlobalMass ==
  \A i \in DOMAIN particleMasses :
    /\ particleMasses[i] > 0
    /\ 4 * particleMasses[i] >= uniforms.particleGlobalMass
    /\ particleMasses[i] <= uniforms.particleGlobalMass

\* C5: with gravityConstant = 0 the particle state after updateParticles is the
\* same under any two attractor configurations.
C5_ZeroGravityIndependence ==
  (JustStepped /\ uniforms.gravityConstant = 0) =>
    /\ twin.positions = positions
    /\ twin.velocities = velocities

\* C6: with maxSpeed = 0 a step leaves every particle with zero velocity and
\* the position it had.
C6_ZeroMaxSpeedFreezes ==
  (JustStepped /\ uniforms.maxSpeed = 0) =>
    \A i \in ParticleIndices :
      /\ velocities[i] = << 0, 0, 0 >>
      /\ positions[i] = prev.positions[i]

\* C7: no updateParticles step runs with a non-positive boundHalfExtent and
\* turns the numbers of a position into NaN.
C7_InvalidConfigurationRejected ==
  JustStepped =>
    ~ /\ uniforms.boundHalfExtent <= 0
      /\ \E i \in ParticleIndices :
           FiniteVec(prev.positions[i]) /\ ~FiniteVec(positions[i])

\* resetParticles has just run (only it raises the particleMass flag after
\* the first frame)
JustReset == pc = "idle" /\ resets > 0 /\ needsUpdate.particleMass

InInitialSlab(p) ==
  /\ p[1] >= 0 - 2500 /\ p[1] <= 2500
  /\ p[2] >= 0 - 100 /\ p[2] <= 100
  /\ p[3] >= 0 - 2500 /\ p[3] <= 2500

\* C8: resetParticles rewrites position, velocity and mass of all
\* PARTICLE_COUNT particles inside the ranges of createParticles and changes
\* neither the uniforms (attractors, parameters) nor the particle count.
C8_ResetRewritesParticlesOnly ==
  [][ (resets' = resets + 1) =>
        /\ uniforms' = uniforms
        /\ DOMAIN positions' = ParticleIndices
        /\ DOMAIN velocities' = ParticleIndices
        /\ DOMAIN particleMasses' = ParticleIndices
        /\ \A i \in ParticleIndices :
             /\ InInitialSlab(positions'[i])
             /\ SpeedAtMost(velocities'[i], 50)
             /\ 4 * particleMasses'[i] >= uniforms.particleGlobalMass
             /\ particleMasses'[i] <= uniforms.particleGlobalMass ]_vars

\* C8 witness: a reset has run after a change of particleGlobalMass, and the
\* particles are back in the initial slab
C8_Witness ==
  /\ JustReset
  /\ uniforms.particleGlobalMass # InitialUniforms.particleGlobalMass
  /\ \A i \in ParticleIndices : InInitialSlab(positions[i])

\* particle i began the last step one thousandth inside the +x face with its
\* x-velocity forced to +10
WrapCase(i) ==
  /\ prev.positions[i][1] = uniforms.boundHalfExtent - 1
  /\ prev.velocities[i][1] = 10000

\* C9: with boundHalfExtent = 8, a particle at x = boundHalfExtent - 0.001 with
\* x-velocity +10 is, after one step, within maxSpeed x timeScale of
\* -boundHalfExtent on the inside, and not above +boundHalfExtent.
C9_WrapScenario ==
  (JustStepped /\ uniforms.boundHalfExtent = 8000) =>
    \A i \in ParticleIndices :
      WrapCase(i) =>
        /\ positions[i][1] >= 0 - uniforms.boundHalfExtent
        /\ positions[i][1] < FMul(uniforms.maxSpeed, uniforms.timeScale)
                               - uniforms.boundHalfExtent
        /\ positions[i][1] <= uniforms.boundHalfExtent

\* C9 witness: the wrap case has been stepped and the particle is in the
\* negative half of the box
C9_Witness ==
  /\ JustStepped
  /\ uniforms.boundHalfExtent = 8000
  /\ \E i \in ParticleIndices : WrapCase(i) /\ positions[i][1] < 0

\* init() has completed: the attractors are in the uniforms and the three
\* arrays hold PARTICLE_COUNT particles
Initialized ==
  /\ uniforms.attractorPositions = attractorPositions
  /\ uniforms.attractorRotationAxes = attractorRotationAxes
  /\ DOMAIN positions = ParticleIndices
  /\ DOMAIN velocities = ParticleIndices
  /\ DOMAIN particleMasses = ParticleIndices

\* C10: a step runs only after init, and every renderer.render finds exactly
\* one updateParticles step run in its frame, all particles written by it and
\* the position and velocity flags set.
C10_OneCompleteStepBeforeRender ==
  /\ (pc = "update" \/ stepsInFrame > 0) => Initialized
  /\ stepsInFrame <= 1
  /\ frame > 0 =>
       /\ drawn.steps = 1
       /\ drawn.updated = ParticleIndices
       /\ drawn.position
       /\ drawn.velocity

\* C10 witness: two frames have been rendered
C10_Witness == pc = "idle" /\ frame = 2 /\ drawn.steps = 1

\* the velocity of particle i once the force of the last step was added to
\* the velocity it began the step with
AfterForce(i) ==
  Accelerate(prev.velocities[i],
             Force(<< 0, 0, 0 >>, 1, prev.positions[i], particleMasses[i], uniforms),
             uniforms)

\* v . v on the exact integers
Dot(v, w) == v[1] * w[1] + v[2] * w[2] + v[3] * w[3]

\* the speed limit applies to the velocity a
OverLimit(a) == FiniteVec(a) /\ Dot(a, a) > uniforms.maxSpeed * uniforms.maxSpeed

\* maxSpeed x (1 - velocityDamping): the speed a limited velocity is left with
DampedLimit == TruncDiv(uniforms.maxSpeed * (SCALE - uniforms.velocityDamping), SCALE)

\* v has the direction of a, up to the rounding of its components
SameDirection(v, a) ==
  /\ \A k \in 1..3 : v[k] = 0 \/ Sign(v[k]) = Sign(a[k])
  /\ \A k, l \in 1..3 :
       Abs(v[k] * a[l] - v[l] * a[k]) <= 2 * (Abs(a[k]) + Abs(a[l]))

\* C11: in one updateParticles step the force is added first, then the speed
\* limit is applied, then the damping, then the position moves by the damped
\* velocity.  For a particle whose velocity after the force is a number:
\* above maxSpeed, its final speed is maxSpeed x (1 - velocityDamping) (within
\* 2 %, for the rounding) in the same direction; otherwise its final
\* velocity is the one after the force times (1 - velocityDamping), timeScale
\* playing no part; and its position is the old one plus final velocity x
\* timeScale, passed through the box loop.
C11_VelocityUpdateOrder ==
  JustStepped =>
    \A i \in ParticleIndices :
      LET a == AfterForce(i)
          v == velocities[i]
      IN  (FiniteVec(a) /\ FiniteVec(prev.positions[i])) =>
            /\ FiniteVec(v)
            /\ OverLimit(a) =>
                 /\ Dot(v, v) <= (DampedLimit + TruncDiv(DampedLimit, 50))
                                   * (DampedLimit + TruncDiv(DampedLimit, 50))
                 /\ Dot(v, v) >= (DampedLimit - TruncDiv(DampedLimit, 50))
                                   * (DampedLimit - TruncDiv(DampedLimit, 50))
                 /\ SameDirection(v, a)
            /\ ~OverLimit(a) =>
                 \A k \in 1..3 :
                   v[k] = TruncDiv(a[k] * (SCALE - uniforms.velocityDamping), SCALE)
            /\ positions[i] =
                 BoxLoop([ k \in 1..3 |->
                            prev.positions[i][k]
                              + TruncDiv(v[k] * uniforms.timeScale, SCALE) ],
                         uniforms)

\* C11 witness: a step has limited and damped a particle that still moves,
\* and has left another one below the limit
C11_Witness ==
  /\ JustStepped
  /\ uniforms.velocityDamping > 0
  /\ \E i \in ParticleIndices :
       /\ OverLimit(AfterForce(i))
       /\ FiniteVec(velocities[i])
       /\ Dot(velocities[i], velocities[i]) > 0
       /\ positions[i] # prev.positions[i]
  /\ \E i \in ParticleIndices :
       /\ FiniteVec(AfterForce(i))
       /\ ~OverLimit(AfterForce(i))
       /\ AfterForce(i) # velocities[i]

\* In the states explored a squared distance of zero means the particle is
\* exactly on the attractor (the resolution merges no near miss into it).
ZeroDistanceIsCoincidence ==
  Initialized =>
    \A i \in ParticleIndices : \A j \in 1..ATTRACTOR_COUNT :
      (FiniteVec(positions[i]) /\ DistSq(uniforms.attractorPositions[j], positions[i]) = 0)
        => positions[i] = uniforms.attractorPositions[j]


(***************************************************************************)
(* Supporting facts: what remains of the speed bound, of the freeze at     *)
(* maxSpeed = 0 and of the zero-gravity independence once the particles    *)
(* whose state is NaN, or that sit on an attractor, are set aside.         *)
(***************************************************************************)

\* a particle whose velocity is a number is within maxSpeed after a step
SpeedBoundWhereNumeric ==
  JustStepped =>
    \A i \in ParticleIndices :
      FiniteVec(velocities[i]) => SpeedAtMost(velocities[i], uniforms.maxSpeed)

\* with maxSpeed = 0 and boundHalfExtent > 0, a particle that began the step
\* with a numeric velocity and off every attractor ends it with zero velocity
ZeroMaxSpeedStopsWhereNumeric ==
  (JustStepped /\ uniforms.maxSpeed = 0 /\ uniforms.boundHalfExtent > 0) =>
    \A i \in ParticleIndices :
      (FiniteVec(prev.velocities[i]) /\ ~WasOnAttractor(i)) =>
        velocities[i] = << 0, 0, 0 >>

\* with gravityConstant = 0, a particle that is on no attractor of either
\* configuration ends the step in the same state in both runs
ZeroGravityIndependenceOffAttractors ==
  (JustStepped /\ uniforms.gravityConstant = 0) =>
    \A i \in ParticleIndices :
      (\A j \in 1..ATTRACTOR_COUNT :
          /\ twin.attractorPositions[j] # prev.positions[i]
          /\ uniforms.attractorPositions[j] # prev.positions[i])
        => /\ twin.positions[i] = positions[i]
           /\ twin.velocities[i] = velocities[i]

====
